---- MODULE Spec2Model ----
(***************************************************************************)
(* A model of tastypie/fields.py: the field descriptors (ApiField and its  *)
(* scalar subclasses, RelatedField, ToOneField, ToManyField) and their     *)
(* dehydrate / hydrate operations.                                         *)
(*                                                                         *)
(* Python values are tokens (strings).  A field descriptor is a record of  *)
(* its constructor arguments, a bundle is a record of the Bundle           *)
(* attributes the fields read.  Every operation is an operator that        *)
(* returns an outcome record [kind, val, err, rep, items, log]: what the   *)
(* call returned or raised and the collaborator calls it made on the way.  *)
(***************************************************************************)
EXTENDS Integers, Sequences, FiniteSets, TLC

VARIABLES
    field,          \* the field descriptor (constructor arguments)
    fk_resource,    \* self.fk_resource of the descriptor
    m2m_resources,  \* self.m2m_resources of the descriptor
    to_class_memo,  \* self._to_class of the descriptor is set
    call,           \* the last operation: name, inputs and outcome
    threads         \* the operations running ToOneField.dehydrate at once

vars == <<field, fk_resource, m2m_resources, to_class_memo, call, threads>>

-----------------------------------------------------------------------------
(* Bounds of the model.                                                    *)

\* Members of the largest related collection (a manager's .all()).
MaxMembers == 3

-----------------------------------------------------------------------------
(* Python values.                                                          *)

\* class NOT_PROVIDED, the marker of "no default".
NOT_PROVIDED == "NOT_PROVIDED"

\* Python truthiness of a value: None, 0 and '' are falsy; objects,
\* managers, non-empty strings and non-zero numbers are truthy.
Truthy(v) == v \notin {"None", "i0", "s"}

\* callable(v): bound methods found on objects and producer defaults.
Callable(v) == v \in {"call_i7", "call_none", "mk_s7"}

\* v(): the value a zero-argument callable returns.
Invoke(v) ==
    CASE v = "call_i7" -> "i7"
      [] v = "call_none" -> "None"
      [] v = "mk_s7" -> "s7"
      [] OTHER -> v

\* isinstance(v, six.string_types)
IsString(v) ==
    v \in {"s", "s0", "s7", "sx", "uri_m1", "uri_gone",
          "s_date", "s_dt", "s_time", "s_nad", "s_shape"}

\* The domain objects of the heap; "o0" is unsaved (its pk is None).
Objects == {"o0", "o1", "o2", "o3"} \cup {"m1", "m2", "m3", "m4"}

\* The attributes of the domain objects.  "Missing": the object has no such
\* attribute; "DoesNotExist": reading it raises ObjectDoesNotExist.
Attr(o, a) ==
    CASE o = "o1" ->
            (CASE a = "pk" -> "i7"
               [] a = "title" -> "s7"
               [] a = "zero" -> "i0"
               [] a = "nothing" -> "None"
               [] a = "owner" -> "o2"
               [] a = "method" -> "call_i7"
               [] a = "tags" -> "mgr_all"
               [] a = "gone" -> "DoesNotExist"
               [] a = "when" -> "s_dt"
               [] a = "day" -> "s_date"
               [] a = "clock" -> "s_time"
               [] OTHER -> "Missing")
      [] o = "o2" ->
            (CASE a = "pk" -> "i7"
               [] a = "title" -> "sx"
               [] a = "zero" -> "s"
               [] a = "owner" -> "None"
               [] a = "tags" -> "mgr_dup"
               [] a = "gone" -> "DoesNotExist"
               [] a = "when" -> "s_nad"
               [] a = "day" -> "s_shape"
               [] a = "clock" -> "time_t"
               [] OTHER -> "Missing")
      [] o = "o3" ->
            (CASE a = "pk" -> "i7"
               [] a = "tags" -> "mgr_none"
               [] OTHER -> "Missing")
      [] o = "o0" ->
            (CASE a = "pk" -> "None"
               [] a = "title" -> "s"
               [] a = "owner" -> "o1"
               [] a = "tags" -> "mgr_all"
               [] a = "when" -> "datetime_dt"
               [] a = "day" -> "date_d"
               [] OTHER -> "Missing")
      [] o \in {"m1", "m2", "m3", "m4"} ->
            (CASE a = "pk" -> "i7"
               [] a = "title" -> IF o = "m2" THEN "sx" ELSE "s7"
               [] OTHER -> "Missing")
      [] OTHER -> "Missing"

\* hasattr(o, a)
HasAttr(o, a) == Attr(o, a) \notin {"Missing", "DoesNotExist"}

\* getattr(o, a, None) raises (only AttributeError is turned into None).
GetAttrRaises(o, a) == Attr(o, a) = "DoesNotExist"

\* getattr(o, a, None), and None where a raising fetch is caught.
GetAttr(o, a) == IF Attr(o, a) \in {"Missing", "DoesNotExist"} THEN "None" ELSE Attr(o, a)

-----------------------------------------------------------------------------
(* Outcomes of a call.                                                     *)

NoRep == [form |-> "", obj |-> "", saved |-> ""]

Ret(v, log) == [kind |-> "return", val |-> v, err |-> "", rep |-> NoRep, items |-> <<>>, log |-> log]

Raise(e, log) == [kind |-> "raise", val |-> "", err |-> e, rep |-> NoRep, items |-> <<>>, log |-> log]

RetRep(r, log) == [kind |-> "return", val |-> "rep", err |-> "", rep |-> r, items |-> <<>>, log |-> log]

RetList(s, log) == [kind |-> "return", val |-> "list", err |-> "", rep |-> NoRep, items |-> s, log |-> log]

\* One entry of the log of collaborator calls.
Ev(fn, arg) == [fn |-> fn, arg |-> arg]

-----------------------------------------------------------------------------
(* Field descriptors and bundles.                                          *)

\* attribute=None: the field is manual.
NoAttr == [t |-> "none", segs |-> <<>>, fn |-> ""]

\* attribute='a__b': the segments of self.attribute.split('__').
Path(segs) == [t |-> "path", segs |-> segs, fn |-> ""]

\* attribute=<a callable taking the bundle>.
CallableAttr(fn) == [t |-> "callable", segs |-> <<>>, fn |-> fn]

\* self.attribute(bundle) for the callables used as attributes.
AttributeCall(fn, b) ==
    CASE fn = "get_owner" -> GetAttr(b.obj, "owner")
      [] fn = "get_tags" -> GetAttr(b.obj, "tags")
      [] OTHER -> "None"

\* self.attribute as a name: what bundle.related_name is compared with.
AttrName(a) ==
    IF a.t = "path" /\ Len(a.segs) = 1 THEN a.segs[1]
    ELSE IF a.t = "path" THEN "<joined path>"
    ELSE IF a.t = "callable" THEN "<callable>"
    ELSE "<None>"

is_related(f) == f.cls \in {"ToOneField", "ToManyField"}

is_m2m(f) == f.cls = "ToManyField"

\* ApiField.has_default
has_default(f) == f.default # NOT_PROVIDED

\* ApiField.default (property): a producer is invoked.
default(f) == IF Callable(f.default) THEN Invoke(f.default) ELSE f.default

\* six.text_type(v)
Text(v) ==
    CASE v = "i0" -> "s0"
      [] v = "i7" -> "s7"
      [] IsString(v) -> v
      [] OTHER -> "s_repr"

\* Texts given to the date, datetime and time fields: "s_date" is
\* '2010-11-10', "s_dt" '2010-11-10T03:07:43', "s_time" '20:05:23', "s_nad"
\* 'not-a-date' and "s_shape" '2010-13-40'.  Values: "date_d" is
\* date(2010, 11, 10), "date_today" today's date, "datetime_d" 2010-11-10
\* 00:00:00, "datetime_dt" 2010-11-10 03:07:43, "datetime_t" today at
\* 20:05:23, and "time_0", "time_dt", "time_t" the three times of day.
DateKind == {"DateField", "DateTimeField", "TimeField"}

\* DATE_REGEX.search(v) matches.
DATE_REGEX(v) == v \in {"s_date", "s_dt", "s_shape"}

\* DATETIME_REGEX.search(v) matches.
DATETIME_REGEX(v) == v = "s_dt"

\* hasattr(v, 'year')
HasYear(v) == v \in {"date_d", "date_today", "datetime_d", "datetime_dt", "datetime_t"}

\* hasattr(v, 'hour')
HasHour(v) == v \in {"datetime_d", "datetime_dt", "datetime_t", "time_0", "time_dt", "time_t"}

\* isinstance(v, datetime.time)
IsTime(v) == v \in {"time_0", "time_dt", "time_t"}

\* dateutil's parse(v): the datetime read from the text, ValueError for a
\* text that holds no date or time, TypeError for what is not a text.
parse(v) ==
    CASE v = "s_date" -> "datetime_d"
      [] v = "s_dt" -> "datetime_dt"
      [] v = "s_time" -> "datetime_t"
      [] IsString(v) -> "ValueError"
      [] OTHER -> "TypeError"

\* value.date()
date_of(v) == IF v = "datetime_t" THEN "date_today" ELSE "date_d"

\* datetime.time(dt.hour, dt.minute, dt.second)
time_of(v) ==
    CASE v = "datetime_d" -> "time_0"
      [] v = "datetime_dt" -> "time_dt"
      [] OTHER -> "time_t"

\* convert of the field's class raises: int('') and int('x') are a
\* ValueError, int(<object>) a TypeError; a text that is not shaped as a
\* date or datetime, or that parse rejects as a time, is an ApiFieldError,
\* and date(2010, 13, 40) a ValueError.
convert_error(f, v) ==
    IF f.cls = "IntegerField" /\ v # "None"
    THEN (CASE v \in {"i0", "i7", "s0", "s7"} -> ""
            [] IsString(v) -> "ValueError"
            [] OTHER -> "TypeError")
    ELSE IF f.cls = "DateField" /\ IsString(v)
    THEN (CASE ~DATE_REGEX(v) -> "ApiFieldError"
            [] v = "s_shape" -> "ValueError"
            [] OTHER -> "")
    ELSE IF f.cls = "DateTimeField" /\ IsString(v)
    THEN (IF DATETIME_REGEX(v) THEN "" ELSE "ApiFieldError")
    ELSE IF f.cls = "TimeField" /\ IsString(v)
    THEN (IF parse(v) \in {"ValueError", "TypeError"} THEN "ApiFieldError" ELSE "")
    ELSE ""

\* ApiField.convert / CharField.convert / IntegerField.convert
convert(f, v) ==
    CASE f.cls = "CharField" -> IF v = "None" THEN "None" ELSE Text(v)
      [] f.cls = "IntegerField" ->
            (CASE v = "None" -> "None"
               [] v \in {"i0", "s0"} -> "i0"
               [] v \in {"i7", "s7"} -> "i7"
               [] OTHER -> v)
      [] f.cls = "DateField" -> IF IsString(v) THEN "date_d" ELSE v
      [] f.cls = "DateTimeField" -> IF IsString(v) THEN "datetime_dt" ELSE v
      [] f.cls = "TimeField" -> IF IsString(v) THEN time_of(parse(v)) ELSE v
      [] OTHER -> v

\* return self.convert(value)
ReturnConverted(f, v, log) ==
    IF convert_error(f, v) # "" THEN Raise(convert_error(f, v), log)
    ELSE Ret(convert(f, v), log)

-----------------------------------------------------------------------------
(* ApiField.dehydrate                                                      *)

\* Mutant of dehydrate_missing: null is tested before the default.
dehydrate_missing_null_first(f) ==
    IF f.null THEN [st |-> "break", cur |-> "None"]
    ELSE IF has_default(f) THEN [st |-> "break", cur |-> f.default]
    ELSE [st |-> "ApiFieldError", cur |-> ""]

\* What dehydrate does with a segment that resolved to None: the default
\* first, then null, then the error.
dehydrate_missing(f) ==
    IF has_default(f) THEN [st |-> "break", cur |-> f.default]
    ELSE IF f.null THEN [st |-> "break", cur |-> "None"]
    ELSE [st |-> "ApiFieldError", cur |-> ""]

\* The loop over the segments: every fetch is logged.
RECURSIVE dehydrate_walk(_, _, _, _)
dehydrate_walk(f, cur, attrs, log) ==
    IF attrs = <<>> THEN [st |-> "ok", cur |-> cur, log |-> log]
    ELSE LET attr == Head(attrs)
             log2 == Append(log, Ev("getattr", attr))
         IN  IF GetAttrRaises(cur, attr)
             THEN [st |-> "ObjectDoesNotExist", cur |-> "", log |-> log2]
             ELSE IF GetAttr(cur, attr) = "None"
             THEN [st |-> dehydrate_missing(f).st, cur |-> dehydrate_missing(f).cur, log |-> log2]
             ELSE dehydrate_walk(f, GetAttr(cur, attr), Tail(attrs), log2)

ApiField_dehydrate(f, b) ==
    IF f.attribute.t = "callable"
    THEN Raise("AttributeError", <<>>)
    ELSE IF f.attribute.t = "path"
    THEN LET w == dehydrate_walk(f, b.obj, f.attribute.segs, <<>>)
         IN  IF w.st \notin {"ok", "break"} THEN Raise(w.st, w.log)
             ELSE ReturnConverted(f, IF Callable(w.cur) THEN Invoke(w.cur) ELSE w.cur, w.log)
    ELSE IF has_default(f) THEN ReturnConverted(f, default(f), <<>>)
    ELSE Ret("None", <<>>)

-----------------------------------------------------------------------------
(* ApiField.hydrate                                                        *)

\* The re-walk of a multi-segment path: no test inside the loop.
RECURSIVE hydrate_walk(_, _)
hydrate_walk(cur, attrs) ==
    IF attrs = <<>> THEN cur
    ELSE IF cur = "DoesNotExist" \/ GetAttrRaises(cur, Head(attrs)) THEN "DoesNotExist"
    ELSE hydrate_walk(GetAttr(cur, Head(attrs)), Tail(attrs))

\* getattr(bundle.obj, self.attribute, None) with the attribute as one name:
\* an object has no attribute whose name holds '__'.
getattr_whole(o, a) == IF Len(a.segs) = 1 THEN GetAttr(o, a.segs[1]) ELSE "None"

\* Mutant of hydrate_fallback: the default is tested before the object's
\* attribute named as the field.
hydrate_fallback_default_first(f, b) ==
    IF has_default(f)
    THEN Ret(IF Callable(f.default) THEN Invoke(f.default) ELSE f.default, <<>>)
    ELSE IF f.instance_name # "" /\ HasAttr(b.obj, f.instance_name)
    THEN Ret(GetAttr(b.obj, f.instance_name), <<>>)
    ELSE IF f.null THEN Ret("None", <<>>)
    ELSE Raise("ApiFieldError", <<>>)

\* The last branches of hydrate: the object's attribute named as the
\* field, then the default, then null, then the error.
hydrate_fallback(f, b) ==
    IF f.instance_name # "" /\ HasAttr(b.obj, f.instance_name)
    THEN Ret(GetAttr(b.obj, f.instance_name), <<>>)
    ELSE IF has_default(f)
    THEN Ret(IF Callable(f.default) THEN Invoke(f.default) ELSE f.default, <<>>)
    ELSE IF f.null THEN Ret("None", <<>>)
    ELSE Raise("ApiFieldError", <<>>)

\* The branches taken when the field's key is not in bundle.data.
hydrate_no_data(f, b) ==
    IF is_related(f) /\ ~is_m2m(f) /\ Truthy(b.related_obj)
       /\ b.related_name \in {AttrName(f.attribute), f.instance_name}
    THEN Ret(b.related_obj, <<>>)
    ELSE IF f.blank THEN Ret("None", <<>>)
    ELSE IF f.attribute.t = "callable" THEN Raise("TypeError", <<>>)
    ELSE IF f.attribute.t = "path" /\ Len(f.attribute.segs) = 1
            /\ GetAttrRaises(b.obj, f.attribute.segs[1])
    THEN Raise("ObjectDoesNotExist", <<>>)
    ELSE IF f.attribute.t = "path" /\ Truthy(getattr_whole(b.obj, f.attribute))
    THEN Ret(getattr_whole(b.obj, f.attribute), <<>>)
    ELSE IF f.attribute.t = "none" THEN Raise("TypeError", <<>>)
    ELSE IF Len(f.attribute.segs) > 1
    THEN LET cur == hydrate_walk(b.obj, f.attribute.segs)
         IN  IF cur = "DoesNotExist" THEN Raise("ObjectDoesNotExist", <<>>)
             ELSE IF cur # "None" THEN Ret(cur, <<>>)
             ELSE Raise("KeyError", <<>>)
    ELSE hydrate_fallback(f, b)

ApiField_hydrate(f, b) ==
    IF f.readonly THEN Ret("None", <<>>)
    ELSE IF ~b.data.has THEN hydrate_no_data(f, b)
    ELSE Ret(b.data.val, <<>>)

-----------------------------------------------------------------------------
(* DateField, DateTimeField and TimeField.                                 *)

\* DateField.hydrate: a ValueError of parse is passed over and the value
\* is returned as it came.
DateField_hydrate(f, b) ==
    LET r == ApiField_hydrate(f, b)
    IN  IF r.kind = "raise" \/ ~Truthy(r.val) \/ HasYear(r.val) THEN r
        ELSE IF parse(r.val) = "TypeError" THEN Raise("TypeError", r.log)
        ELSE IF parse(r.val) = "ValueError" THEN r
        ELSE Ret(IF HasHour(parse(r.val)) THEN date_of(parse(r.val)) ELSE parse(r.val), r.log)

\* DateTimeField.hydrate
DateTimeField_hydrate(f, b) ==
    LET r == ApiField_hydrate(f, b)
    IN  IF r.kind = "raise" \/ ~Truthy(r.val) \/ HasYear(r.val) THEN r
        ELSE IF ~IsString(r.val) THEN Raise("ApiFieldError", r.log)
        ELSE IF parse(r.val) \in {"ValueError", "TypeError"} THEN Raise("ApiFieldError", r.log)
        ELSE Ret(parse(r.val), r.log)

\* TimeField.to_time
to_time(v, log) ==
    IF parse(v) \in {"ValueError", "TypeError"} THEN Raise("ApiFieldError", log)
    ELSE Ret(time_of(parse(v)), log)

\* TimeField.hydrate
TimeField_hydrate(f, b) ==
    LET r == ApiField_hydrate(f, b)
    IN  IF r.kind = "raise" \/ ~Truthy(r.val) \/ IsTime(r.val) THEN r
        ELSE to_time(r.val, r.log)

\* TimeField.dehydrate: convert over what ApiField.dehydrate returns.
TimeField_dehydrate(f, b) ==
    LET r == ApiField_dehydrate(f, b)
    IN  IF r.kind = "raise" THEN r ELSE ReturnConverted(f, r.val, r.log)

\* field.dehydrate(bundle) of a scalar field, by the field's class.
dehydrate(f, b) ==
    IF f.cls = "TimeField" THEN TimeField_dehydrate(f, b) ELSE ApiField_dehydrate(f, b)

\* field.hydrate(bundle) of a scalar field, by the field's class.
hydrate(f, b) ==
    CASE f.cls = "DateField" -> DateField_hydrate(f, b)
      [] f.cls = "DateTimeField" -> DateTimeField_hydrate(f, b)
      [] f.cls = "TimeField" -> TimeField_hydrate(f, b)
      [] OTHER -> ApiField_hydrate(f, b)

-----------------------------------------------------------------------------
(* RelatedField: the embedding decision and dehydrate_related.             *)

\* Bundle(obj=..., request=...): a bundle built without objects_saved gets
\* a set of its own.
NewBundle(obj) ==
    [obj |-> obj, data |-> [has |-> FALSE, val |-> "None", list |-> <<>>],
     related_obj |-> "None", related_name |-> "", saved |-> "fresh"]

\* full_list / full_detail given as a predicate over the bundle.
PredicateCall(p, b) ==
    CASE p = "pred_title" -> GetAttr(b.obj, "title") = "s7"
      [] OTHER -> FALSE

\* (not callable(flag) and flag) or (callable(flag) and flag(bundle))
flag_value(name, flag, b) ==
    IF flag \in {"True", "False"}
    THEN [val |-> flag = "True", log |-> <<>>]
    ELSE [val |-> PredicateCall(flag, b), log |-> <<Ev(name, b.obj)>>]

\* Mutant of should_full_dehydrate: the two contexts are swapped.
should_full_dehydrate_swapped(f, b, for_list) ==
    IF f.full
    THEN IF for_list
         THEN flag_value("full_detail(bundle)", f.full_detail, b)
         ELSE flag_value("full_list(bundle)", f.full_list, b)
    ELSE [val |-> FALSE, log |-> <<>>]

\* RelatedField.should_full_dehydrate
should_full_dehydrate(f, b, for_list) ==
    IF f.full
    THEN IF ~for_list
         THEN flag_value("full_detail(bundle)", f.full_detail, b)
         ELSE flag_value("full_list(bundle)", f.full_list, b)
    ELSE [val |-> FALSE, log |-> <<>>]

\* RelatedField.get_related_resource: the target resource, bound to the
\* related instance.
get_related_resource(related_instance) == related_instance

\* RelatedField.dehydrate_related: the locator of the bundle's object, or
\* the full dehydration of the resource's instance in a bundle that is
\* handed the caller's objects_saved.
dehydrate_related(f, b, related_resource, for_list) ==
    LET d == should_full_dehydrate(f, b, for_list)
    IN  IF ~d.val
        THEN RetRep([form |-> "uri", obj |-> b.obj, saved |-> ""],
                    d.log \o <<Ev("get_resource_uri", b.obj)>>)
        ELSE RetRep([form |-> "full", obj |-> related_resource, saved |-> b.saved],
                    d.log \o <<Ev("full_dehydrate", related_resource)>>)

-----------------------------------------------------------------------------
(* ToOneField.dehydrate                                                    *)

\* The loop over the segments: a raising fetch gives None, and the walk
\* goes on after a None.
RECURSIVE to_one_walk(_, _)
to_one_walk(cur, attrs) ==
    IF attrs = <<>> THEN cur
    ELSE to_one_walk(GetAttr(cur, Head(attrs)), Tail(attrs))

\* Mutant of to_one_foreign_obj: only a path is resolved.
to_one_foreign_obj_paths_only(f, b) ==
    IF f.attribute.t = "path" THEN to_one_walk(b.obj, f.attribute.segs) ELSE "None"

\* foreign_obj as resolved from self.attribute
to_one_foreign_obj(f, b) ==
    IF f.attribute.t = "path" THEN to_one_walk(b.obj, f.attribute.segs)
    ELSE IF f.attribute.t = "callable" THEN AttributeCall(f.attribute.fn, b)
    ELSE "None"

\* The log of resolving foreign_obj: a callable attribute is invoked with
\* the bundle.
to_one_resolve_log(f, b) ==
    IF f.attribute.t = "callable" THEN <<Ev("attribute", b.obj)>> ELSE <<>>

\* if not foreign_obj: previous_obj and attr are bound by the loop only.
to_one_empty(f, log) ==
    IF ~f.null
    THEN IF f.attribute.t = "path" THEN Raise("ApiFieldError", log)
         ELSE Raise("UnboundLocalError", log)
    ELSE Ret("None", log)

ToOneField_dehydrate(f, b, for_list) ==
    LET foreign_obj == to_one_foreign_obj(f, b)
        log == to_one_resolve_log(f, b)
    IN  IF ~Truthy(foreign_obj) THEN to_one_empty(f, log)
        ELSE LET res == get_related_resource(foreign_obj)
                 log2 == log \o <<Ev("to_class()", foreign_obj), Ev("self.fk_resource=", res)>>
                 r == dehydrate_related(f, NewBundle(foreign_obj), res, for_list)
             IN  [r EXCEPT !.log = log2 \o r.log]

-----------------------------------------------------------------------------
(* ToManyField.dehydrate                                                   *)

\* The i-th related object of the store.
MemberAt(i) ==
    CASE i = 1 -> "m1"
      [] i = 2 -> "m2"
      [] i = 3 -> "m3"
      [] OTHER -> "m4"

\* isinstance of a related manager: it has .all().
IsManager(v) == v \in {"mgr_all", "mgr_dup", "mgr_none"}

\* the_m2ms.all(), in the collection's iteration order.
Members(mgr) ==
    CASE mgr = "mgr_all" -> [i \in 1..MaxMembers |-> MemberAt(i)]
      [] mgr = "mgr_dup" -> <<"m2", "m2", "m1">>
      [] OTHER -> <<>>

\* The loop over the segments: a raising fetch gives None, and the loop
\* breaks at the first falsy value.
RECURSIVE to_many_walk(_, _)
to_many_walk(cur, attrs) ==
    IF attrs = <<>> THEN cur
    ELSE IF ~Truthy(GetAttr(cur, Head(attrs))) THEN GetAttr(cur, Head(attrs))
    ELSE to_many_walk(GetAttr(cur, Head(attrs)), Tail(attrs))

\* the_m2ms as resolved from self.attribute
to_many_the_m2ms(f, b) ==
    IF f.attribute.t = "path" THEN to_many_walk(b.obj, f.attribute.segs)
    ELSE IF f.attribute.t = "callable" THEN AttributeCall(f.attribute.fn, b)
    ELSE "None"

\* Mutant of to_many_loop: every entry is put in front of the others.
RECURSIVE to_many_loop_prepend(_, _, _, _)
to_many_loop_prepend(f, members, for_list, acc) ==
    IF members = <<>> THEN acc
    ELSE LET m2m == Head(members)
             r == dehydrate_related(f, NewBundle(m2m), get_related_resource(m2m), for_list)
         IN  to_many_loop_prepend(f, Tail(members), for_list,
                 [items |-> <<r.rep>> \o acc.items, log |-> acc.log \o r.log])

\* The loop over the_m2ms.all(): one entry per member, appended in order.
RECURSIVE to_many_loop(_, _, _, _)
to_many_loop(f, members, for_list, acc) ==
    IF members = <<>> THEN acc
    ELSE LET m2m == Head(members)
             m2m_resource == get_related_resource(m2m)
             r == dehydrate_related(f, NewBundle(m2m), m2m_resource, for_list)
         IN  to_many_loop(f, Tail(members), for_list,
                 [items |-> Append(acc.items, r.rep),
                  log |-> acc.log \o <<Ev("to_class()", m2m), Ev("self.m2m_resources.append", m2m_resource)>> \o r.log])

\* The resolved value is falsy and every outcome is the empty list.
to_many_no_m2ms_lenient(f, log) == RetList(<<>>, log)

\* The resolved value is falsy: `if not the_m2ms`.
to_many_no_m2ms(f, log) ==
    IF ~f.null THEN Raise("ApiFieldError", log) ELSE RetList(<<>>, log)

ToManyField_dehydrate(f, b, for_list) ==
    IF ~Truthy(b.obj) \/ ~Truthy(GetAttr(b.obj, "pk"))
    THEN IF ~f.null THEN Raise("ApiFieldError", <<>>) ELSE RetList(<<>>, <<>>)
    ELSE LET the_m2ms == to_many_the_m2ms(f, b)
             log == IF f.attribute.t = "callable" THEN <<Ev("attribute", b.obj)>> ELSE <<>>
         IN  IF ~Truthy(the_m2ms)
             THEN to_many_no_m2ms(f, log)
             ELSE IF ~IsManager(the_m2ms)
             THEN Raise("AttributeError", log \o <<Ev("self.m2m_resources=[]", "")>>)
             ELSE LET l == to_many_loop(f, Members(the_m2ms), for_list,
                               [items |-> <<>>, log |-> log \o <<Ev("self.m2m_resources=[]", "")>>])
                  IN  RetList(l.items, l.log)

-----------------------------------------------------------------------------
(* The target resource and its store, as the fields use them.              *)

\* The keys an inbound mapping may hold.
Keys == {"pk", "slug", "title"}

\* The stored related objects and their columns.  The target resource
\* declares slug unique, the store does not enforce it.
Stored == {"m1", "m2", "m3"}

StoreRow(o) ==
    CASE o = "m1" -> [pk |-> "1", slug |-> "a", title |-> "x"]
      [] o = "m2" -> [pk |-> "2", slug |-> "a", title |-> "y"]
      [] OTHER -> [pk |-> "3", slug |-> "b", title |-> "x"]

\* The inbound mappings, by name; "-" is a key the mapping does not hold
\* and "bad" a value of the wrong type for its column.
DictItems(v) ==
    CASE v = "d_title" -> [pk |-> "-", slug |-> "-", title |-> "x"]
      [] v = "d_empty" -> [pk |-> "-", slug |-> "-", title |-> "-"]
      [] v = "d_pk1_x" -> [pk |-> "1", slug |-> "-", title |-> "x"]
      [] v = "d_pk1_y" -> [pk |-> "1", slug |-> "-", title |-> "y"]
      [] v = "d_pk9" -> [pk |-> "9", slug |-> "-", title |-> "-"]
      [] v = "d_slug_a" -> [pk |-> "-", slug |-> "a", title |-> "-"]
      [] v = "d_slug_a_z" -> [pk |-> "-", slug |-> "a", title |-> "z"]
      [] v = "d_slug_b_bad" -> [pk |-> "-", slug |-> "b", title |-> "bad"]
      [] v = "d_slug_c_bad" -> [pk |-> "-", slug |-> "c", title |-> "bad"]
      [] v = "d_slug_a_bad" -> [pk |-> "-", slug |-> "a", title |-> "bad"]
      [] v = "dict_pk" -> [pk |-> "2", slug |-> "-", title |-> "y"]
      [] OTHER -> [pk |-> "-", slug |-> "-", title |-> "-"]

Dicts ==
    {"d_title", "d_empty", "d_pk1_x", "d_pk1_y", "d_pk9", "d_slug_a", "d_slug_a_z",
     "d_slug_b_bad", "d_slug_c_bad", "d_slug_a_bad", "dict_pk"}

\* isinstance(value, Bundle)
IsBundle(v) == v = "bundle_m1"

\* hasattr(value, 'items')
HasItems(v) == v \in Dicts

\* hasattr(value, 'pk')
HasPk(v) == v = "dict_pk" \/ (v \in Objects /\ Attr(v, "pk") # "Missing")

\* hasattr(fk_resource, k) and getattr(fk_resource, k).unique
TargetUnique(k) == k = "slug"

\* The stored objects a set of selectors matches.
Matching(sel) == {o \in Stored : \A k \in Keys : sel[k] # "-" => StoreRow(o)[k] = sel[k]}

\* fk_resource.obj_update(fk_bundle, skip_errors=True, **sel): the object
\* updated, or the name of the exception raised.
obj_update(sel) ==
    IF \E k \in Keys : sel[k] = "bad" THEN "TypeError"
    ELSE IF Matching(sel) = {} THEN "NotFound"
    ELSE IF Cardinality(Matching(sel)) > 1 THEN "MultipleObjectsReturned"
    ELSE CHOOSE o \in Matching(sel) : TRUE

\* fk_resource.get_via_uri(uri): the object, or the exception raised.
get_via_uri(uri) ==
    CASE uri = "uri_m1" -> "m1"
      [] uri = "uri_gone" -> "ObjectDoesNotExist"
      [] OTHER -> "NotFound"

-----------------------------------------------------------------------------
(* RelatedField: from an inbound value to a related bundle.                *)

\* RelatedField.resource_from_uri
resource_from_uri(uri, log) ==
    LET obj == get_via_uri(uri)
        log2 == Append(log, Ev("get_via_uri", uri))
    IN  IF obj = "ObjectDoesNotExist" THEN Raise("ApiFieldError", log2)
        ELSE IF obj = "NotFound" THEN Raise("NotFound", log2)
        ELSE RetRep([form |-> "full", obj |-> obj, saved |-> "fresh"],
                    Append(log2, Ev("full_dehydrate", obj)))

\* unique_keys: the items of data under 'pk' or a unique field.
unique_keys(data) ==
    [k \in Keys |-> IF k = "pk" \/ TargetUnique(k) THEN data[k] ELSE "-"]

\* The last lines of resource_from_data: full_hydrate, is_valid, return.
populated_bundle(log) ==
    RetRep([form |-> "hydrated", obj |-> "", saved |-> "fresh"],
           log \o <<Ev("full_hydrate", ""), Ev("is_valid", "")>>)

\* return fk_resource.obj_update(...) when it raised nothing.
updated_bundle(obj, log) == RetRep([form |-> "updated", obj |-> obj, saved |-> "fresh"], log)

\* The except (NotFound, TypeError) handler: the attempt by unique keys.
second_attempt(data, log) ==
    LET u2 == obj_update(unique_keys(data))
        log2 == Append(log, Ev("obj_update", "unique_keys"))
    IN  IF u2 = "NotFound" THEN populated_bundle(log2)
        ELSE IF u2 \in {"TypeError", "MultipleObjectsReturned"} THEN Raise(u2, log2)
        ELSE updated_bundle(u2, log2)

\* Mutant of resource_from_data: can_update is not asked.
resource_from_data_always_update(v, can_update, log) ==
    LET data == DictItems(v)
        u1 == obj_update(data)
        log1 == Append(log, Ev("obj_update", "data"))
    IN  IF \E k \in Keys : unique_keys(data)[k] # "-"
        THEN IF u1 \in {"NotFound", "TypeError"} THEN second_attempt(data, log1)
             ELSE IF u1 = "MultipleObjectsReturned" THEN populated_bundle(log1)
             ELSE updated_bundle(u1, log1)
        ELSE populated_bundle(log)

\* Mutant of resource_from_data: the handler that makes the second attempt
\* catches the ambiguous and the type-mismatched first attempt.
resource_from_data_fallback_on_ambiguous(v, can_update, log) ==
    LET data == DictItems(v)
        has_unique == \E k \in Keys : unique_keys(data)[k] # "-"
    IN  IF has_unique /\ can_update
        THEN LET u1 == obj_update(data)
                 log1 == log \o <<Ev("can_update", ""), Ev("obj_update", "data")>>
             IN  IF u1 \in {"MultipleObjectsReturned", "TypeError"} THEN second_attempt(data, log1)
                 ELSE IF u1 = "NotFound" THEN populated_bundle(log1)
                 ELSE updated_bundle(u1, log1)
        ELSE populated_bundle(IF has_unique THEN Append(log, Ev("can_update", "")) ELSE log)

\* RelatedField.resource_from_data
resource_from_data(v, can_update, log) ==
    LET data == DictItems(v)
        has_unique == \E k \in Keys : unique_keys(data)[k] # "-"
    IN  IF has_unique /\ can_update
        THEN LET u1 == obj_update(data)
                 log1 == log \o <<Ev("can_update", ""), Ev("obj_update", "data")>>
             IN  IF u1 \in {"NotFound", "TypeError"} THEN second_attempt(data, log1)
                 ELSE IF u1 = "MultipleObjectsReturned" THEN populated_bundle(log1)
                 ELSE updated_bundle(u1, log1)
        ELSE populated_bundle(IF has_unique THEN Append(log, Ev("can_update", "")) ELSE log)

\* RelatedField.resource_from_pk
resource_from_pk(obj, log) ==
    RetRep([form |-> "full", obj |-> obj, saved |-> "fresh"], Append(log, Ev("full_dehydrate", obj)))

\* Mutant of build_related_resource: the pk test comes before the test
\* for a mapping.
build_related_resource_pk_first(f, value, can_update) ==
    LET log == <<Ev("to_class()", ""), Ev("self.fk_resource=", "res")>>
    IN  IF IsBundle(value) THEN RetRep([form |-> "same", obj |-> value, saved |-> ""], log)
        ELSE IF IsString(value) THEN resource_from_uri(value, Append(log, Ev("resource_from_uri", value)))
        ELSE IF HasPk(value) THEN resource_from_pk(value, Append(log, Ev("resource_from_pk", value)))
        ELSE IF HasItems(value)
        THEN resource_from_data(value, can_update, Append(log, Ev("resource_from_data", value)))
        ELSE Raise("ApiFieldError", log)

\* RelatedField.build_related_resource
build_related_resource(f, value, can_update) ==
    LET log == <<Ev("to_class()", ""), Ev("self.fk_resource=", "res")>>
    IN  IF IsBundle(value) THEN RetRep([form |-> "same", obj |-> value, saved |-> ""], log)
        ELSE IF IsString(value) THEN resource_from_uri(value, Append(log, Ev("resource_from_uri", value)))
        ELSE IF HasItems(value)
        THEN resource_from_data(value, can_update, Append(log, Ev("resource_from_data", value)))
        ELSE IF HasPk(value) THEN resource_from_pk(value, Append(log, Ev("resource_from_pk", value)))
        ELSE Raise("ApiFieldError", log)

\* ToOneField.hydrate
ToOneField_hydrate(f, b, can_update) ==
    LET r == ApiField_hydrate(f, b)
    IN  IF r.kind = "raise" \/ r.val = "None" THEN r
        ELSE build_related_resource(f, r.val, can_update)

\* ToManyField.hydrate
ToManyField_hydrate(f, b) == Ret("None", <<>>)

\* The loop of hydrate_m2m that appends every entry, None too.
RECURSIVE hydrate_m2m_loop_keep_none(_, _, _, _, _)
hydrate_m2m_loop_keep_none(f, values, can_update, items, log) ==
    IF values = <<>> THEN RetList(items, log)
    ELSE LET r == build_related_resource(f, Head(values), can_update)
         IN  IF r.kind = "raise" THEN Raise(r.err, log \o r.log)
             ELSE hydrate_m2m_loop_keep_none(f, Tail(values), can_update,
                                             Append(items, r.rep), log \o r.log)

\* The loop of hydrate_m2m: `for value in bundle.data.get(...)`.
RECURSIVE hydrate_m2m_loop(_, _, _, _, _)
hydrate_m2m_loop(f, values, can_update, items, log) ==
    IF values = <<>> THEN RetList(items, log)
    ELSE IF Head(values) = "None"
    THEN hydrate_m2m_loop(f, Tail(values), can_update, items, log)
    ELSE LET r == build_related_resource(f, Head(values), can_update)
         IN  IF r.kind = "raise" THEN Raise(r.err, log \o r.log)
             ELSE hydrate_m2m_loop(f, Tail(values), can_update,
                                   Append(items, r.rep), log \o r.log)

\* ToManyField.hydrate_m2m
ToManyField_hydrate_m2m(f, b, can_update) ==
    IF f.readonly THEN Ret("None", <<>>)
    ELSE IF ~b.data.has \/ b.data.val = "None"
    THEN IF f.blank THEN RetList(<<>>, <<>>)
         ELSE IF f.null THEN RetList(<<>>, <<>>)
         ELSE Raise("ApiFieldError", <<>>)
    ELSE hydrate_m2m_loop(f, b.data.list, can_update, <<>>, <<>>)

-----------------------------------------------------------------------------
(* The descriptors, bundles and inbound values the operations are run on.  *)

\* attribute= of the scalar fields.
ScalarAttributes ==
    {NoAttr, CallableAttr("get_owner"),
     Path(<<"title">>), Path(<<"zero">>), Path(<<"nothing">>), Path(<<"absent">>),
     Path(<<"method">>), Path(<<"gone">>),
     Path(<<"owner", "title">>), Path(<<"owner", "owner", "title">>)}

\* attribute= of the relation fields.
RelatedAttributes ==
    {NoAttr, CallableAttr("get_owner"), CallableAttr("get_tags"), CallableAttr("get_nothing"),
     Path(<<"owner">>), Path(<<"tags">>), Path(<<"gone">>),
     Path(<<"owner", "owner">>), Path(<<"nothing", "tags">>)}

\* ApiField.__init__ and the scalar subclasses.
ScalarFields ==
    [cls : {"ApiField", "CharField", "IntegerField"},
     instance_name : {"title", "zero", "f"},
     attribute : ScalarAttributes,
     default : {NOT_PROVIDED, "i7", "mk_s7"},
     null : BOOLEAN, blank : BOOLEAN, readonly : BOOLEAN,
     full : {FALSE}, full_list : {"True"}, full_detail : {"True"}]

\* The date, datetime and time descriptors.
DateFields ==
    [cls : DateKind,
     instance_name : {"f"},
     attribute : {NoAttr, Path(<<"when">>), Path(<<"day">>), Path(<<"clock">>)},
     default : {NOT_PROVIDED},
     null : BOOLEAN, blank : {FALSE}, readonly : {FALSE},
     full : {FALSE}, full_list : {"True"}, full_detail : {"True"}]

\* The values an inbound representation holds under a scalar field's key.
DataValues(f) ==
    IF f.cls \in DateKind
    THEN {"None", "s_date", "s_dt", "s_time", "s_nad", "date_d", "datetime_dt", "time_t"}
    ELSE {"None", "s7"}

\* RelatedField.__init__ by way of ToOneField and ToManyField: the
\* descriptors that vary what dehydrate reads (full, full_list,
\* full_detail) and those that vary what hydrate reads (blank, readonly).
RelatedFields ==
    [cls : {"ToOneField", "ToManyField"},
     instance_name : {"owner"},
     attribute : RelatedAttributes,
     default : {NOT_PROVIDED},
     null : BOOLEAN, blank : {FALSE}, readonly : {FALSE},
     full : BOOLEAN,
     full_list : {"True", "False", "pred_title"},
     full_detail : {"True", "False", "pred_title"}]
    \cup
    [cls : {"ToOneField", "ToManyField"},
     instance_name : {"owner"},
     attribute : RelatedAttributes,
     default : {NOT_PROVIDED},
     null : BOOLEAN, blank : BOOLEAN, readonly : BOOLEAN,
     full : {FALSE}, full_list : {"True"}, full_detail : {"True"}]

\* The bundle of a top-level operation.
TopBundle(obj, has, val, related_obj, related_name) ==
    [obj |-> obj, data |-> [has |-> has, val |-> val, list |-> <<>>],
     related_obj |-> related_obj, related_name |-> related_name, saved |-> "top"]

\* The bundle of a top-level operation whose data holds a list under the
\* field's key.
ListBundle(obj, list) ==
    [obj |-> obj, data |-> [has |-> TRUE, val |-> "list", list |-> list],
     related_obj |-> "None", related_name |-> "", saved |-> "top"]

\* The lists an inbound representation holds under a to-many field's key.
M2MLists ==
    {<<>>, <<"None">>, <<"uri_m1">>, <<"i7">>,
     <<"uri_m1", "bundle_m1">>, <<"bundle_m1", "uri_m1">>,
     <<"None", "d_pk9", "None">>,
     <<"uri_m1", "None", "bundle_m1">>,
     <<"bundle_m1", "uri_gone", "uri_m1">>,
     <<"uri_m1", "uri_m1", "None", "d_pk1_y">>}

\* Inbound values of a relation field.
InboundValues ==
    {"bundle_m1", "uri_m1", "uri_gone", "sx", "o1", "i7"} \cup Dicts

NoBundle == TopBundle("None", FALSE, "None", "None", "")

NoCall ==
    [op |-> "init", bundle |-> NoBundle, for_list |-> FALSE, value |-> "None",
     can_update |-> FALSE, out |-> Ret("None", <<>>)]

-----------------------------------------------------------------------------
(* The attributes of the descriptor after a call, from the call's log.     *)

\* self.fk_resource: the last assignment, if any.
RECURSIVE fk_resource_after(_, _)
fk_resource_after(log, old) ==
    IF log = <<>> THEN old
    ELSE fk_resource_after(Tail(log),
             IF Head(log).fn = "self.fk_resource=" THEN Head(log).arg ELSE old)

\* self.m2m_resources: reset, then appended to.
RECURSIVE m2m_resources_after(_, _)
m2m_resources_after(log, old) ==
    IF log = <<>> THEN old
    ELSE m2m_resources_after(Tail(log),
             IF Head(log).fn = "self.m2m_resources=[]" THEN <<>>
             ELSE IF Head(log).fn = "self.m2m_resources.append" THEN Append(old, Head(log).arg)
             ELSE old)

\* self._to_class: memoized by the first to_class.
to_class_after(log, old) == old \/ \E i \in 1..Len(log) : log[i].fn = "to_class()"

\* The state after a call with outcome out.
Record(op, b, for_list, value, can_update, out) ==
    /\ call' = [op |-> op, bundle |-> b, for_list |-> for_list, value |-> value,
                can_update |-> can_update, out |-> out]
    /\ fk_resource' = fk_resource_after(out.log, fk_resource)
    /\ m2m_resources' = m2m_resources_after(out.log, m2m_resources)
    /\ to_class_memo' = to_class_after(out.log, to_class_memo)
    /\ UNCHANGED <<field, threads>>

-----------------------------------------------------------------------------
(* The specification.                                                      *)

\* The operations that may run through one descriptor at the same time.
Ops == {"A", "B"}

\* An operation that is not running.
IdleOp ==
    [pc |-> "idle", bundle |-> NoBundle, for_list |-> FALSE, foreign_obj |-> "None",
     out |-> Ret("None", <<>>)]

\* An operation about to call field.dehydrate(bundle, for_list) with a
\* bundle of its own.
StartOp(obj, for_list) ==
    [pc |-> "resolve", bundle |-> TopBundle(obj, FALSE, "None", "None", ""),
     for_list |-> for_list, foreign_obj |-> "None", out |-> Ret("None", <<>>)]

Init ==
    /\ field \in ScalarFields \cup DateFields \cup RelatedFields
    /\ fk_resource = "None"
    /\ m2m_resources = <<>>
    /\ to_class_memo = FALSE
    /\ call = NoCall
    /\ threads = [t \in Ops |-> IdleOp]

\* field.dehydrate(bundle) on a scalar field
Dehydrate ==
    /\ ~is_related(field)
    /\ \E obj \in {"o0", "o1", "o2"} :
          LET b == TopBundle(obj, FALSE, "None", "None", "")
          IN  Record("dehydrate", b, TRUE, "None", FALSE, dehydrate(field, b))

\* field.hydrate(bundle) on a scalar field
Hydrate ==
    /\ ~is_related(field)
    /\ \E obj \in {"o0", "o1", "o2"}, has \in BOOLEAN, val \in DataValues(field) :
          /\ ~has => val = "None"
          /\ LET b == TopBundle(obj, has, val, "None", "")
             IN  Record("hydrate", b, FALSE, "None", FALSE, hydrate(field, b))

\* field.dehydrate(bundle, for_list) on a to-one relation
ToOneDehydrate ==
    /\ field.cls = "ToOneField"
    /\ \E obj \in {"o0", "o1", "o2"}, for_list \in BOOLEAN :
          LET b == TopBundle(obj, FALSE, "None", "None", "")
          IN  Record("dehydrate", b, for_list, "None", FALSE, ToOneField_dehydrate(field, b, for_list))

\* field.dehydrate(bundle, for_list) on a to-many relation
ToManyDehydrate ==
    /\ field.cls = "ToManyField"
    /\ \E obj \in {"None", "o0", "o1", "o2", "o3"}, for_list \in BOOLEAN :
          LET b == TopBundle(obj, FALSE, "None", "None", "")
          IN  Record("dehydrate", b, for_list, "None", FALSE, ToManyField_dehydrate(field, b, for_list))

\* field.hydrate(bundle) on a to-one relation
ToOneHydrate ==
    /\ field.cls = "ToOneField"
    /\ \E obj \in {"o1", "o2"}, has \in BOOLEAN, val \in {"None", "uri_m1", "d_pk1_y", "i7"},
          related_obj \in {"None", "o2"} :
          /\ ~has => val = "None"
          /\ LET b == TopBundle(obj, has, val, related_obj, IF related_obj = "None" THEN "" ELSE "owner")
             IN  Record("hydrate", b, FALSE, "None", TRUE, ToOneField_hydrate(field, b, TRUE))

\* field.hydrate(bundle) on a to-many relation
ToManyHydrate ==
    /\ field.cls = "ToManyField"
    /\ \E obj \in {"o1", "o2"}, list \in M2MLists :
          LET b == ListBundle(obj, list)
          IN  Record("hydrate", b, FALSE, "None", FALSE, ToManyField_hydrate(field, b))

\* field.hydrate_m2m(bundle) on a to-many relation
ToManyHydrateM2M ==
    /\ field.cls = "ToManyField"
    /\ \E b \in {TopBundle("o1", FALSE, "None", "None", ""),
                  TopBundle("o1", TRUE, "None", "None", "")}
                 \cup {ListBundle("o1", list) : list \in M2MLists} :
          Record("hydrate_m2m", b, FALSE, "None", TRUE, ToManyField_hydrate_m2m(field, b, TRUE))

\* field.build_related_resource(value, request=...)
BuildRelatedResource ==
    /\ is_related(field)
    /\ \E value \in InboundValues, can_update \in BOOLEAN :
          /\ value \notin Dicts => can_update
          /\ Record("build_related_resource", NoBundle, FALSE, value, can_update,
                 build_related_resource(field, value, can_update))

Next ==
    \/ Dehydrate
    \/ Hydrate
    \/ ToOneDehydrate
    \/ ToManyDehydrate
    \/ ToOneHydrate
    \/ ToManyHydrate
    \/ ToManyHydrateM2M
    \/ BuildRelatedResource

Spec == Init /\ [][Next]_vars

-----------------------------------------------------------------------------
(* Two operations in ToOneField.dehydrate on one descriptor.  Each has its *)
(* own bundle and locals; self.fk_resource is the descriptor's.  A thread  *)
(* may be switched between the store to self.fk_resource and the load of   *)
(* it in the next statement.                                               *)

ConcurrentInit ==
    /\ field \in {f \in RelatedFields : f.cls = "ToOneField"}
    /\ fk_resource = "None"
    /\ m2m_resources = <<>>
    /\ to_class_memo = FALSE
    /\ call = NoCall
    /\ \E obj \in {"o0", "o2"}, for_list \in [Ops -> BOOLEAN] :
          threads = [t \in Ops |-> StartOp(IF t = "A" THEN "o1" ELSE obj, for_list[t])]

\* ToOneField.dehydrate up to `if not foreign_obj`: foreign_obj is a local.
DehydrateResolve(t) ==
    /\ threads[t].pc = "resolve"
    /\ LET foreign_obj == to_one_foreign_obj(field, threads[t].bundle)
           log == to_one_resolve_log(field, threads[t].bundle)
       IN  threads' = [threads EXCEPT ![t] =
               IF ~Truthy(foreign_obj)
               THEN [@ EXCEPT !.pc = "done", !.out = to_one_empty(field, log)]
               ELSE [@ EXCEPT !.pc = "assign", !.foreign_obj = foreign_obj]]
    /\ UNCHANGED <<field, fk_resource, m2m_resources, to_class_memo, call>>

\* self.fk_resource = self.get_related_resource(foreign_obj)
DehydrateAssign(t) ==
    /\ threads[t].pc = "assign"
    /\ fk_resource' = get_related_resource(threads[t].foreign_obj)
    /\ to_class_memo' = TRUE
    /\ threads' = [threads EXCEPT ![t].pc = "related"]
    /\ UNCHANGED <<field, m2m_resources, call>>

\* fk_bundle = Bundle(obj=foreign_obj, ...);
\* return self.dehydrate_related(fk_bundle, self.fk_resource, for_list)
DehydrateRelated(t) ==
    /\ threads[t].pc = "related"
    /\ threads' = [threads EXCEPT ![t] =
           [@ EXCEPT !.pc = "done",
                     !.out = dehydrate_related(field, NewBundle(threads[t].foreign_obj),
                                               fk_resource, threads[t].for_list)]]
    /\ UNCHANGED <<field, fk_resource, m2m_resources, to_class_memo, call>>

ConcurrentNext ==
    \E t \in Ops : DehydrateResolve(t) \/ DehydrateAssign(t) \/ DehydrateRelated(t)

ConcurrentSpec == ConcurrentInit /\ [][ConcurrentNext]_vars

-----------------------------------------------------------------------------
(* Properties.                                                             *)

\* The value a chain of plain attribute fetches ends at.
RECURSIVE Resolve(_, _)
Resolve(o, segs) ==
    IF segs = <<>> THEN o ELSE Resolve(GetAttr(o, Head(segs)), Tail(segs))

\* A fetch along the path raises.
RECURSIVE PathRaises(_, _)
PathRaises(o, segs) ==
    IF segs = <<>> THEN FALSE
    ELSE GetAttrRaises(o, Head(segs)) \/ PathRaises(GetAttr(o, Head(segs)), Tail(segs))

\* The position of the first segment that resolves to None, counted from
\* k; 0 when no segment does, or when a fetch raises first.
RECURSIVE FirstNone(_, _, _)
FirstNone(o, segs, k) ==
    IF segs = <<>> \/ GetAttrRaises(o, Head(segs)) THEN 0
    ELSE IF GetAttr(o, Head(segs)) = "None" THEN k
    ELSE FirstNone(GetAttr(o, Head(segs)), Tail(segs), k + 1)

\* The log holds a call of fn.
Called(log, fn) == \E i \in 1..Len(log) : log[i].fn = fn

\* A hydrate of a scalar field has just run.
ScalarHydrate == call.op = "hydrate" /\ ~is_related(field) /\ field.cls \notin DateKind

\* The object gives hydrate nothing: no attribute named as the field, and
\* the field is manual or its path resolves to None without raising.
NothingOnObject ==
    /\ ~HasAttr(call.bundle.obj, field.instance_name)
    /\ \/ field.attribute.t = "none"
       \/ /\ field.attribute.t = "path"
          /\ ~PathRaises(call.bundle.obj, field.attribute.segs)
          /\ Resolve(call.bundle.obj, field.attribute.segs) = "None"

\* C1: hydrate of a non-readonly field whose key is not in bundle.data,
\* with null=False, blank=False, no default and nothing to take from the
\* object (a manual field included), raises ApiFieldError: it raises no
\* other error and returns nothing.
C1_HydrateWithoutDataRaisesApiFieldError ==
    (/\ ScalarHydrate
     /\ ~field.readonly /\ ~field.blank /\ ~field.null /\ ~has_default(field)
     /\ ~call.bundle.data.has
     /\ NothingOnObject)
    => (call.out.kind = "raise" /\ call.out.err = "ApiFieldError")

\* The outcome the ordered rules of hydrate give a scalar field whose
\* attribute is the single segment seg.
C2_Expected(f, b, seg) ==
    IF f.readonly THEN [kind |-> "return", val |-> "None"]
    ELSE IF b.data.has THEN [kind |-> "return", val |-> b.data.val]
    ELSE IF f.blank THEN [kind |-> "return", val |-> "None"]
    ELSE IF Truthy(GetAttr(b.obj, seg)) THEN [kind |-> "return", val |-> GetAttr(b.obj, seg)]
    ELSE IF HasAttr(b.obj, f.instance_name)
    THEN [kind |-> "return", val |-> GetAttr(b.obj, f.instance_name)]
    ELSE IF f.default = "mk_s7" THEN [kind |-> "return", val |-> "s7"]
    ELSE IF f.default # NOT_PROVIDED THEN [kind |-> "return", val |-> f.default]
    ELSE IF f.null THEN [kind |-> "return", val |-> "None"]
    ELSE [kind |-> "raise", val |-> ""]

\* C2: hydrate of a scalar field with a single-segment attribute returns
\* the result of the first applicable rule, in the order readonly, key
\* present, blank, non-empty value at the attribute, attribute named as
\* the field, default (a producer invoked), null, and fails otherwise.
C2_HydrateRuleOrder ==
    (/\ ScalarHydrate
     /\ field.attribute.t = "path" /\ Len(field.attribute.segs) = 1
     /\ ~GetAttrRaises(call.bundle.obj, field.attribute.segs[1]))
    => LET e == C2_Expected(field, call.bundle, field.attribute.segs[1])
       IN  /\ call.out.kind = e.kind
           /\ call.out.val = e.val
           /\ e.kind = "raise" => call.out.err = "ApiFieldError"

\* C2 witness: the key is absent, the attribute is empty, the object holds
\* an empty value under the field's name and a default exists: the empty
\* value is returned, not the default.
C2_Witness ==
    /\ ScalarHydrate
    /\ field.attribute = Path(<<"nothing">>) /\ field.instance_name = "zero"
    /\ ~field.readonly /\ ~field.blank /\ has_default(field)
    /\ ~call.bundle.data.has /\ call.bundle.obj = "o1"
    /\ call.out.kind = "return" /\ call.out.val = "i0"

\* The default of a field as its class converts it (a producer invoked).
C3_ConvertedDefault(f) ==
    CASE f.cls = "CharField" -> "s7"
      [] f.cls = "IntegerField" -> "i7"
      [] OTHER -> IF f.default = "mk_s7" THEN "s7" ELSE f.default

\* A dehydrate of a scalar field has just run on a path with a segment
\* that resolves to None.
C3_Case ==
    /\ call.op = "dehydrate" /\ ~is_related(field)
    /\ field.attribute.t = "path"
    /\ FirstNone(call.bundle.obj, field.attribute.segs, 1) > 0

\* C3: dehydrate walks the segments in order and at the first one that
\* resolves to None returns the converted default when a default is
\* configured (before null, fetching no further segment), else None when
\* null is allowed, else raises ApiFieldError.
C3_DehydrateMissingSegment ==
    C3_Case
    => LET k == FirstNone(call.bundle.obj, field.attribute.segs, 1)
       IN  /\ Len(call.out.log) = k
           /\ \A i \in 1..k : call.out.log[i] = Ev("getattr", field.attribute.segs[i])
           /\ IF has_default(field)
              THEN call.out.kind = "return" /\ call.out.val = C3_ConvertedDefault(field)
              ELSE IF field.null
              THEN call.out.kind = "return" /\ call.out.val = "None"
              ELSE call.out.kind = "raise" /\ call.out.err = "ApiFieldError"

\* C3 witness: the second of three segments is None, a default and null
\* are both set, and the converted default comes back after two fetches.
C3_Witness ==
    /\ C3_Case
    /\ field.attribute = Path(<<"owner", "owner", "title">>) /\ call.bundle.obj = "o1"
    /\ field.cls = "CharField" /\ field.default = "i7" /\ field.null
    /\ call.out.val = "s7" /\ Len(call.out.log) = 2

\* The related value a relation field's attribute resolves to on the
\* bundle of the last call.
RelatedValue ==
    IF field.attribute.t = "path" THEN Resolve(call.bundle.obj, field.attribute.segs)
    ELSE IF field.attribute.t = "callable" THEN AttributeCall(field.attribute.fn, call.bundle)
    ELSE "None"

\* The owning object of the last call has identity.
OwnerHasIdentity == Truthy(call.bundle.obj) /\ Truthy(GetAttr(call.bundle.obj, "pk"))

\* The objects of a sequence of representations.
RepObjects(items) == [i \in 1..Len(items) |-> items[i].obj]

\* A dehydrate has just run on a field whose attribute is a lone callable.
C4_Case == call.op = "dehydrate" /\ field.attribute.t = "callable"

\* The callable was invoked with the bundle, first of all.
C4_Invoked == call.out.log # <<>> /\ call.out.log[1] = Ev("attribute", call.bundle.obj)

\* The outcome is the one the callable's result gives as the resolved value.
C4_ResultUsed ==
    LET v == AttributeCall(field.attribute.fn, call.bundle)
    IN  CASE field.cls = "ToOneField" ->
                IF Truthy(v) THEN call.out.kind = "return" /\ call.out.rep.obj = v
                ELSE ~Called(call.out.log, "to_class()")
          [] field.cls = "ToManyField" ->
                IF Truthy(v) /\ IsManager(v)
                THEN call.out.kind = "return" /\ RepObjects(call.out.items) = Members(v)
                ELSE call.out.items = <<>>
          [] OTHER -> call.out.kind = "return"

\* C4 as stated: for every field kind, dehydrate of a field whose attribute
\* is a lone callable invokes it with the bundle and uses its result.
C4_CallableAttributeEveryKind == C4_Case => (C4_Invoked /\ C4_ResultUsed)

\* C4 as amended: dehydrate of a to-one relation, and of a to-many relation
\* whose owning object has identity, invokes a lone callable attribute with
\* the bundle and uses its result as the resolved value.
C4_CallableAttributeOfRelations ==
    (/\ C4_Case
     /\ \/ field.cls = "ToOneField"
        \/ field.cls = "ToManyField" /\ OwnerHasIdentity)
    => (C4_Invoked /\ C4_ResultUsed)

\* C4 witness: a to-one relation whose callable gives the owner of o1.
C4_Witness ==
    /\ C4_Case /\ field.cls = "ToOneField" /\ field.attribute.fn = "get_owner"
    /\ call.bundle.obj = "o1"
    /\ C4_Invoked /\ call.out.rep.obj = "o2"

\* A to-one dehydrate has just run and found a related object.
C5_Case == call.op = "dehydrate" /\ field.cls = "ToOneField" /\ Truthy(RelatedValue)

\* A flag of the embedding decision on the bundle of object o.
C5_Flag(flag, o) == flag = "True" \/ (flag = "pred_title" /\ GetAttr(o, "title") = "s7")

\* The embedding decision for object o in the context of the last call.
C5_Decision(o) ==
    field.full /\ C5_Flag(IF call.for_list THEN field.full_list ELSE field.full_detail, o)

\* The flag that the context of the last call does not use.
C5_OtherFlag == IF call.for_list THEN "full_detail(bundle)" ELSE "full_list(bundle)"

\* C5: the related object is fully dehydrated exactly when full is true and
\* the flag of the context (full_detail for a detail, full_list for a list;
\* a boolean or a predicate of the bundle) is true, and is given as its
\* locator otherwise; with full false no predicate is consulted.
C5_EmbeddingDecision ==
    C5_Case
    => /\ call.out.kind = "return"
       /\ call.out.rep.obj = RelatedValue
       /\ call.out.rep.form = IF C5_Decision(RelatedValue) THEN "full" ELSE "uri"
       /\ ~Called(call.out.log, C5_OtherFlag)
       /\ ~field.full =>
             (~Called(call.out.log, "full_list(bundle)") /\ ~Called(call.out.log, "full_detail(bundle)"))

\* C5 witness: full=True, full_list=False, full_detail=True gives the
\* locator in a list.
C5_Witness ==
    /\ C5_Case
    /\ field.full /\ field.full_list = "False" /\ field.full_detail = "True"
    /\ call.for_list /\ call.out.rep.form = "uri"

\* The resolution strategies a build_related_resource ran, from its log.
Strategies(log) ==
    {fn \in {"resource_from_uri", "resource_from_data", "resource_from_pk"} : Called(log, fn)}

\* Nothing was looked up, updated, hydrated or dehydrated.
NoResolution(log) ==
    /\ Strategies(log) = {}
    /\ \A fn \in {"get_via_uri", "obj_update", "full_hydrate", "full_dehydrate"} : ~Called(log, fn)

\* A build_related_resource has just run.
C6_Case == call.op = "build_related_resource"

\* C6: build_related_resource applies one strategy, chosen by the first
\* matching shape: a Bundle is returned unchanged, a string is resolved as
\* a locator, a mapping is create/update data (with a pk attribute too), a
\* value with a pk is dehydrated in a bundle, anything else raises
\* ApiFieldError.
C6_ShapeDispatch ==
    C6_Case
    => LET v == call.value
           out == call.out
       IN  IF v = "bundle_m1"
           THEN out.kind = "return" /\ out.rep = [form |-> "same", obj |-> v, saved |-> ""]
                /\ NoResolution(out.log)
           ELSE IF v \in {"s", "s0", "s7", "sx", "uri_m1", "uri_gone"}
           THEN Strategies(out.log) = {"resource_from_uri"} /\ Called(out.log, "get_via_uri")
           ELSE IF v \in Dicts
           THEN Strategies(out.log) = {"resource_from_data"}
                /\ ~Called(out.log, "full_dehydrate")
                /\ (out.kind = "return" => out.rep.form \in {"updated", "hydrated"})
           ELSE IF v \in Objects
           THEN Strategies(out.log) = {"resource_from_pk"}
                /\ out.kind = "return" /\ out.rep.form = "full" /\ out.rep.obj = v
           ELSE out.kind = "raise" /\ out.err = "ApiFieldError" /\ NoResolution(out.log)

\* C6 witness: a mapping that also has a pk attribute is create/update data.
C6_Witness ==
    /\ C6_Case /\ call.value = "dict_pk"
    /\ Strategies(call.out.log) = {"resource_from_data"}
    /\ call.out.rep.form = "updated"

\* A build_related_resource has just run on an inbound mapping.
MappingCase == call.op = "build_related_resource" /\ call.value \in Dicts

\* The inbound mapping holds 'pk' or a key the target declares unique.
HasUniqueKey(v) == DictItems(v).pk # "-" \/ DictItems(v).slug # "-"

\* The number of update attempts in the log.
Attempts(log) == Cardinality({i \in 1..Len(log) : log[i].fn = "obj_update"})

\* C7: a not-found or an ambiguous outcome of either update attempt is not
\* propagated: the call returns, and returns an updated bundle only of an
\* object that is the one match of an attempt.
C7_NotFoundAndAmbiguousSwallowed ==
    MappingCase
    => /\ call.out.err \notin {"NotFound", "MultipleObjectsReturned"}
       /\ call.out.rep.form = "updated" =>
             \/ Matching(DictItems(call.value)) = {call.out.rep.obj}
             \/ Matching(unique_keys(DictItems(call.value))) = {call.out.rep.obj}

\* The object an update attempt of the mapping finds: by all the data, or,
\* when that is not found or type-mismatched, by the unique keys; "" when
\* there is none.
C8_Found(v) ==
    LET all == DictItems(v)
        uniq == [k \in Keys |-> IF k = "title" THEN "-" ELSE all[k]]
        bad == \E k \in Keys : all[k] = "bad"
    IN  IF ~bad /\ Cardinality(Matching(all)) = 1 THEN CHOOSE o \in Matching(all) : TRUE
        ELSE IF (bad \/ Matching(all) = {}) /\ Cardinality(Matching(uniq)) = 1
        THEN CHOOSE o \in Matching(uniq) : TRUE
        ELSE ""

\* C8: with no unique key in the mapping, or updates not permitted, no
\* update is attempted and the result is the fresh bundle of a full
\* hydrate; with a unique key, updates permitted and an attempt that finds
\* its object, the updated bundle is returned and no full hydrate is run.
C8_UpdateOnlyByUniqueKey ==
    MappingCase
    => /\ (~HasUniqueKey(call.value) \/ ~call.can_update) =>
             /\ Attempts(call.out.log) = 0
             /\ call.out.kind = "return"
             /\ call.out.rep = [form |-> "hydrated", obj |-> "", saved |-> "fresh"]
             /\ Called(call.out.log, "full_hydrate")
       /\ (HasUniqueKey(call.value) /\ call.can_update /\ C8_Found(call.value) # "") =>
             /\ call.out.kind = "return"
             /\ call.out.rep.form = "updated" /\ call.out.rep.obj = C8_Found(call.value)
             /\ ~Called(call.out.log, "full_hydrate")

\* C8 witness: a mapping with a pk that matches, on a resource that does
\* not permit updates, gives the fresh bundle.
C8_Witness ==
    /\ MappingCase /\ call.value = "d_pk1_x" /\ ~call.can_update
    /\ call.out.rep.form = "hydrated" /\ Attempts(call.out.log) = 0

\* A to-one dehydrate has just run, on a path or a callable that resolves
\* to a falsy or missing related object.
C9_Case ==
    /\ call.op = "dehydrate" /\ field.cls = "ToOneField"
    /\ field.attribute.t \in {"path", "callable"}
    /\ ~Truthy(RelatedValue)

\* C9: a to-one dehydrate whose related object is falsy or missing returns
\* None when null is allowed and raises ApiFieldError otherwise, without
\* instantiating the target resource.
C9_EmptyRelatedObject ==
    C9_Case
    => /\ ~Called(call.out.log, "to_class()")
       /\ IF field.null THEN call.out.kind = "return" /\ call.out.val = "None"
          ELSE call.out.kind = "raise" /\ call.out.err = "ApiFieldError"

\* A to-many dehydrate has just run on an owning object with identity and
\* a collection with members.
C10_Case ==
    /\ call.op = "dehydrate" /\ field.cls = "ToManyField"
    /\ OwnerHasIdentity
    /\ IsManager(RelatedValue) /\ Members(RelatedValue) # <<>>

\* C10: a to-many dehydrate returns one entry per member of the
\* collection, in the collection's order, each the member's locator or
\* full representation as the embedding decision says.
C10_OneEntryPerMemberInOrder ==
    C10_Case
    => LET ms == Members(RelatedValue)
       IN  /\ call.out.kind = "return"
           /\ Len(call.out.items) = Len(ms)
           /\ \A i \in 1..Len(ms) :
                 /\ call.out.items[i].obj = ms[i]
                 /\ call.out.items[i].form = IF C5_Decision(ms[i]) THEN "full" ELSE "uri"

\* C10 witness: full=False and a collection of at least three members
\* give as many locators.
C10_Witness ==
    /\ C10_Case /\ ~field.full /\ RelatedValue = "mgr_all"
    /\ Len(call.out.items) = MaxMembers /\ MaxMembers >= 3
    /\ \A i \in 1..MaxMembers : call.out.items[i] = [form |-> "uri", obj |-> MemberAt(i), saved |-> ""]

\* A to-many dehydrate has just run and the relation has nothing to list:
\* the owning object has no identity, or the attribute resolves to a falsy
\* value, or to a collection without members.
C11_Case ==
    /\ call.op = "dehydrate" /\ field.cls = "ToManyField"
    /\ \/ ~OwnerHasIdentity
       \/ ~Truthy(RelatedValue)
       \/ IsManager(RelatedValue) /\ Members(RelatedValue) = <<>>

\* The call returned the empty sequence.
C11_ReturnedEmpty == call.out.kind = "return" /\ call.out.items = <<>>

\* The call failed with the field error.
C11_Failed == call.out.kind = "raise" /\ call.out.err = "ApiFieldError"

\* C11 as stated: a to-many dehydrate with nothing to list fails only when
\* null is disallowed and the owning object has no identity; on an owning
\* object with identity whose attribute resolves to nothing or to an empty
\* collection it returns the empty sequence whether or not null is allowed.
C11_FailsOnlyWithoutIdentity ==
    C11_Case
    => /\ (call.out.kind = "raise" => ~field.null /\ ~OwnerHasIdentity)
       /\ (OwnerHasIdentity => C11_ReturnedEmpty)

\* C11 amended: a to-many dehydrate with nothing to list fails with the
\* field error exactly when null is disallowed and either the owning object
\* has no identity or the attribute resolves to a falsy value; otherwise,
\* and always for an empty collection on an object with identity, it
\* returns the empty sequence.
C11_FailsWithoutIdentityOrValue ==
    C11_Case
    => IF ~field.null /\ (~OwnerHasIdentity \/ ~Truthy(RelatedValue))
       THEN C11_Failed
       ELSE C11_ReturnedEmpty

\* C11 witness: the owning object has identity, the attribute resolves to
\* None, null is disallowed, and the call failed with the field error.
C11_Witness ==
    /\ C11_Case /\ OwnerHasIdentity /\ ~field.null
    /\ field.attribute.t = "path" /\ RelatedValue = "None"
    /\ C11_Failed

\* A hydrate_m2m has just run on a non-readonly to-many field.
C12_Case == call.op = "hydrate_m2m" /\ field.cls = "ToManyField" /\ ~field.readonly

\* The entries of the list that are not None, in the list's order.
C12_Entries == SelectSeq(call.bundle.data.list, LAMBDA v : v # "None")

\* What an entry resolves to.
C12_Resolved(v) == build_related_resource(field, v, call.can_update)

\* The position of the first entry whose resolution fails; 0 when none does.
C12_FirstFailure ==
    LET bad == {i \in 1..Len(C12_Entries) : C12_Resolved(C12_Entries[i]).kind = "raise"}
    IN  IF bad = {} THEN 0 ELSE CHOOSE i \in bad : \A j \in bad : i <= j

\* C12: hydrate_m2m on a non-readonly field returns the empty list for an
\* absent or None list when blank or null is allowed and fails otherwise;
\* for a list it returns the bundles its non-None entries resolve to, one
\* per entry and in the list's order (the first entry that fails to
\* resolve fails the call). The base hydrate of a to-many field does
\* nothing and returns None.
C12_HydrateM2M ==
    /\ C12_Case /\ (~call.bundle.data.has \/ call.bundle.data.val = "None")
       => IF field.blank \/ field.null
          THEN call.out.kind = "return" /\ call.out.val = "list" /\ call.out.items = <<>>
          ELSE call.out.kind = "raise" /\ call.out.err = "ApiFieldError"
    /\ C12_Case /\ call.bundle.data.val = "list"
       => IF C12_FirstFailure = 0
          THEN /\ call.out.kind = "return"
               /\ call.out.items = [i \in 1..Len(C12_Entries) |-> C12_Resolved(C12_Entries[i]).rep]
          ELSE /\ call.out.kind = "raise"
               /\ call.out.err = C12_Resolved(C12_Entries[C12_FirstFailure]).err
    /\ call.op = "hydrate" /\ field.cls = "ToManyField"
       => call.out = Ret("None", <<>>)

\* C12 witness: a list with a None between two entries gave the two
\* entries' bundles in order.
C12_Witness ==
    /\ C12_Case /\ call.bundle.data.list = <<"uri_m1", "None", "bundle_m1">>
    /\ call.out.kind = "return"
    /\ RepObjects(call.out.items) = <<"m1", "bundle_m1">>

\* The representations the last call returned that were made through a
\* nested bundle (saved names the objects_saved set that bundle holds).
C13_NestedReps ==
    {call.out.items[i] : i \in 1..Len(call.out.items)} \cup
    (IF call.out.rep.saved # "" THEN {call.out.rep} ELSE {})

\* C13: every nested bundle the relation machinery builds in a dehydrate,
\* hydrate or hydrate_m2m of a top-level bundle holds the objects_saved set
\* of that bundle, not a fresh one.
C13_ObjectsSavedPassedDown ==
    call.op \in {"dehydrate", "hydrate", "hydrate_m2m"}
    => \A r \in C13_NestedReps : r.saved # "" => r.saved = call.bundle.saved

\* C14: after any sequence of dehydrate, hydrate, hydrate_m2m and
\* build_related_resource calls the descriptor's attributes other than the
\* memoized target type are as its constructor left them: no related
\* resource and no list of related resources is kept on it.
C14_NoScratchStateOnDescriptor ==
    fk_resource = "None" /\ m2m_resources = <<>>

\* A text that is no date, datetime or time.
C15_Unparsable(v) == v \in {"s_nad", "s_shape"}

\* A date, datetime or time field has just been given such a text: by
\* dehydrate, as the value its attribute path resolves to, or by hydrate,
\* under the field's key.
C15_Case ==
    /\ field.cls \in DateKind
    /\ \/ /\ call.op = "dehydrate" /\ field.attribute.t = "path"
          /\ C15_Unparsable(Resolve(call.bundle.obj, field.attribute.segs))
       \/ /\ call.op = "hydrate" /\ call.bundle.data.has
          /\ C15_Unparsable(call.bundle.data.val)

\* C15: a date, datetime or time field given a text that does not parse as
\* its type fails with ApiFieldError, in dehydrate's convert and in hydrate
\* with the key present; the text is never the value returned.
C15_UnparsableTextFails ==
    C15_Case => call.out.kind = "raise" /\ call.out.err = "ApiFieldError"

\* C16: whatever the interleaving, an operation that dehydrated through a
\* to-one descriptor while another did returns the locator or nested
\* representation of the related object of its own owning object.
C16_EachReturnsItsOwnRelatedObject ==
    \A t \in Ops :
        (threads[t].pc = "done" /\ threads[t].out.kind = "return" /\ threads[t].out.val # "None")
        => threads[t].out.rep.obj = to_one_foreign_obj(field, threads[t].bundle)

\* The selectors of the update attempts of the last call, in order.
C17_Selectors ==
    LET at == SelectSeq(call.out.log, LAMBDA e : e.fn = "obj_update")
    IN  [i \in 1..Len(at) |-> at[i].arg]

\* The outcome of an attempt by all the data of the mapping.
C17_First == obj_update(DictItems(call.value))

\* The outcome of an attempt by the unique keys of the mapping.
C17_Second == obj_update(unique_keys(DictItems(call.value)))

\* A mapping with a unique key was given and updates are permitted.
C17_Case == MappingCase /\ HasUniqueKey(call.value) /\ call.can_update

\* An attempt by the unique keys alone is the second attempt, after one by
\* all the data.
C17_UniqueKeysOnlyAfterAllData ==
    \A i \in 1..Len(C17_Selectors) :
        C17_Selectors[i] = "unique_keys" => i = 2 /\ C17_Selectors[1] = "data"

\* C17 as stated: with unique keys and updates permitted the first update
\* attempt is by all the data; when it is ambiguous or type-mismatched a
\* second attempt by the unique keys alone is made, whose success returns
\* the updated bundle; the attempt by unique keys alone is never made
\* before or without the attempt by all the data.
C17_FallbackOnAmbiguousOrTypeError ==
    /\ MappingCase => C17_UniqueKeysOnlyAfterAllData
    /\ C17_Case
       => /\ C17_Selectors # <<>> /\ C17_Selectors[1] = "data"
          /\ (C17_First \in {"MultipleObjectsReturned", "TypeError"}
              => C17_Selectors = <<"data", "unique_keys">>)
          /\ (C17_Selectors = <<"data", "unique_keys">> /\ C17_Second \in Stored
              => call.out.kind = "return" /\ call.out.rep.form = "updated"
                 /\ call.out.rep.obj = C17_Second)

\* C17 amended: with unique keys and updates permitted the first update
\* attempt is by all the data; a second attempt by the unique keys alone is
\* made exactly when the first is not found or type-mismatched, and its
\* success returns the updated bundle; an ambiguous first attempt is
\* followed by no second attempt and the fresh bundle is returned; the
\* attempt by unique keys alone is never made before or without the
\* attempt by all the data.
C17_FallbackOnNotFoundOrTypeError ==
    /\ MappingCase => C17_UniqueKeysOnlyAfterAllData
    /\ C17_Case
       => /\ C17_Selectors # <<>> /\ C17_Selectors[1] = "data"
          /\ (C17_First \in {"NotFound", "TypeError"}
              <=> C17_Selectors = <<"data", "unique_keys">>)
          /\ (C17_First = "MultipleObjectsReturned"
              => C17_Selectors = <<"data">> /\ call.out.kind = "return"
                 /\ call.out.rep.form = "hydrated")
          /\ (C17_Selectors = <<"data", "unique_keys">> /\ C17_Second \in Stored
              => call.out.kind = "return" /\ call.out.rep.form = "updated"
                 /\ call.out.rep.obj = C17_Second)

\* C17 witness: the attempt by all the data was type-mismatched, the
\* attempt by the unique keys found its object, and the updated bundle of
\* that object was returned.
C17_Witness ==
    /\ C17_Case /\ C17_First = "TypeError"
    /\ C17_Selectors = <<"data", "unique_keys">>
    /\ call.out.rep.form = "updated" /\ call.out.rep.obj = C17_Second /\ C17_Second = "m3"

\* A hydrate of a scalar field has just run with the field's key missing,
\* the field neither readonly nor blank, a path of several segments, no
\* non-empty value under the whole attribute string on the object, and no
\* fetch along the path raising.
C18_Case ==
    /\ ScalarHydrate /\ ~field.readonly /\ ~field.blank
    /\ ~call.bundle.data.has
    /\ field.attribute.t = "path" /\ Len(field.attribute.segs) > 1
    /\ ~Truthy(getattr_whole(call.bundle.obj, field.attribute))
    /\ ~PathRaises(call.bundle.obj, field.attribute.segs)

\* C18: in that case hydrate returns what the walk of the path over the
\* object finds, and None when the walk finds nothing; it does not fail.
C18_ReturnsWhatTheWalkFinds ==
    C18_Case
    => /\ call.out.kind = "return"
       /\ call.out.val = Resolve(call.bundle.obj, field.attribute.segs)

====
